---- MODULE Spec2Model ----
(***************************************************************************)
(* A model of http_server: the request parser (req.rs), the static file   *)
(* handler (handler.rs), the response writer (resp.rs) and the accept     *)
(* loop with its per-connection handler tasks (main.rs).                  *)
(*                                                                         *)
(* Byte strings are sequences of one-character strings, so that the       *)
(* parser's splitting and trimming are computed as the code computes      *)
(* them.                                                                   *)
(***************************************************************************)
EXTENDS Integers, Sequences, FiniteSets, TLC

VARIABLES
    cancelled,  \* cancel_token has been cancelled                 (main.rs:42)
    mainPc,     \* where main is: "select", "selectNoAccept", "join", "done"
    nconn,      \* number of clients that have connected to the listener
    tasks,      \* main's Vec of JoinHandles, as connection ids    (main.rs:54)
    hpc,        \* per connection: state of its handle_client task
    rx,         \* per connection: bytes sent by the client, not yet read
    rxEof,      \* per connection: the client has shut down its sending side
    nsent,      \* number of messages the clients have sent
    req,        \* per connection: the Request being handled
    hres,       \* per connection: what handler.handle returns for req
    resp,       \* per connection: the Response being written
    wbuf,       \* per connection: BufStream's write buffer
    sock,       \* per connection: what has reached the socket
    nparsed,    \* per connection: number of requests parse_request returned
    logged,     \* per connection: the last line its handler has logged
    pin,        \* parser check: the input stream, as the lines it is made of
    pres,       \* parser check: parse_request's result
    qpath,      \* handler check: the request path
    qres,       \* handler check: StaticFileHandler::handle's result
    sin,        \* writer check: two responses and their maps' iteration orders
    sout        \* writer check: what status_and_headers returns for each

serverVars == <<cancelled, mainPc, nconn, tasks, hpc, rx, rxEof, nsent, req,
                hres, resp, wbuf, sock, nparsed, logged>>
pureVars == <<pin, pres, qpath, qres, sin, sout>>
vars == <<serverVars, pureVars>>

----------------------------------------------------------------------------
(* Bounds of the model. *)

MaxConns == 2   \* clients that ever connect
MaxSends == 2   \* messages the clients send, over all connections
MaxHdrs == 2    \* header lines of a parser input
MaxSegs == 3    \* segments of a handler input path
MaxBody == 2    \* bytes of the body of a writer input response

----------------------------------------------------------------------------
(* Byte strings. *)

SP == " "
HT == "\t"
CR == "\r"
LF == "\n"
COLON == ":"
SLASH == "/"

GET == <<"G", "E", "T">>
PUT == <<"P", "U", "T">>
HTTP11 == <<"H", "T", "T", "P", "/", "1", ".", "1">>
CRLF == <<CR, LF>>
ConnectionKey == <<"C", "o", "n", "n", "e", "c", "t", "i", "o", "n">>
HostKey == <<"H", "o", "s", "t">>
NoColonLine == <<"n", "o", "c", "o", "l", "o", "n">>
CloseValue == <<"c", "l", "o", "s", "e">>

\* char::is_whitespace, restricted to the ASCII characters the inputs use.
IsWhitespace(ch) == ch \in {SP, HT, CR, LF}

\* Index of the first occurrence of ch in s, 0 when there is none.
IndexOf(s, ch) ==
    IF \E i \in 1..Len(s) : s[i] = ch
    THEN CHOOSE i \in 1..Len(s) : s[i] = ch /\ \A j \in 1..(i - 1) : s[j] # ch
    ELSE 0

\* str::split(ch): the pieces between the separators, empty pieces included:
\* one piece more than there are separators, the k-th piece lying between the
\* (k-1)-th and the k-th separator.
Split(s, ch) ==
    LET seps == {i \in 1..Len(s) : s[i] = ch}
        n == Cardinality(seps)
        pos(k) == IF k = 0 THEN 0
                  ELSE IF k = n + 1 THEN Len(s) + 1
                  ELSE CHOOSE i \in seps :
                           Cardinality({j \in seps : j <= i}) = k
    IN [k \in 1..(n + 1) |-> SubSeq(s, pos(k - 1) + 1, pos(k) - 1)]

\* str::split_whitespace: the maximal runs of non-whitespace characters.
RECURSIVE SplitWhitespace(_)
SplitWhitespace(s) ==
    IF s = <<>> THEN <<>>
    ELSE IF IsWhitespace(s[1]) THEN SplitWhitespace(Tail(s))
    ELSE LET ends == {i \in 1..Len(s) : IsWhitespace(s[i])}
             n == IF ends = {} THEN Len(s) + 1
                  ELSE CHOOSE i \in ends : \A j \in ends : i <= j
         IN <<SubSeq(s, 1, n - 1)>> \o SplitWhitespace(SubSeq(s, n, Len(s)))

\* str::trim: whitespace removed from both ends.
RECURSIVE TrimStart(_)
TrimStart(s) ==
    IF s # <<>> /\ IsWhitespace(s[1]) THEN TrimStart(Tail(s)) ELSE s

RECURSIVE TrimEnd(_)
TrimEnd(s) ==
    IF s # <<>> /\ IsWhitespace(s[Len(s)])
    THEN TrimEnd(SubSeq(s, 1, Len(s) - 1)) ELSE s

Trim(s) == TrimEnd(TrimStart(s))

\* HashMap<String, String>: a function from keys to values.
EmptyMap == [k \in {} |-> <<>>]

\* HashMap::insert: a later insert of the same key replaces the value.
MapInsert(m, key, value) ==
    [k \in DOMAIN m \cup {key} |-> IF k = key THEN value ELSE m[k]]

\* HashMap::get(key) == Some(value)
MapGetIs(m, key, value) == key \in DOMAIN m /\ m[key] = value

----------------------------------------------------------------------------
(* req.rs: Request, Method and parse_request. *)

NoReq == [method |-> "none", path |-> <<>>, headers |-> EmptyMap]

\* Method::try_from
MethodTryFrom(token) == IF token = GET THEN "Get" ELSE "unsupported"

\* AsyncBufReadExt::read_line on the stream s: the bytes up to and including
\* the first "\n"; at end of input, whatever is left (nothing, at the end).
\* Without a "\n" and before end of input the read is not ready.
ReadLine(s, eof) ==
    LET i == IndexOf(s, LF)
    IN IF i > 0
       THEN [ready |-> TRUE, line |-> SubSeq(s, 1, i),
             rest |-> SubSeq(s, i + 1, Len(s))]
       ELSE [ready |-> eof, line |-> s, rest |-> <<>>]

ParseResult(status, err, r, rest) ==
    [status |-> status, err |-> err, req |-> r, rest |-> rest]

\* One header line of parse_request's loop: the key is the piece before the
\* first ":", the value the next piece of line.split(":"), trimmed.
HeaderOfLine(line) ==
    LET comps == Split(line, COLON)
    IN IF Len(comps) < 2
       THEN [ok |-> FALSE, key |-> <<>>, value |-> <<>>]
       ELSE [ok |-> TRUE, key |-> comps[1], value |-> Trim(comps[2])]

\* A header loop that ends at a blank line alone, not at the end of input.
EndsHeadersAtBlankOnly(line) == line = <<LF>> \/ line = CRLF

\* The line that ends parse_request's header loop.
EndsHeaders(line) == line = <<>> \/ line = <<LF>> \/ line = CRLF

\* The header loop of parse_request.
RECURSIVE ReadHeaders(_, _, _, _, _)
ReadHeaders(s, eof, method, path, headers) ==
    LET rl == ReadLine(s, eof)
    IN IF ~rl.ready THEN ParseResult("pending", "", NoReq, s)
       ELSE IF EndsHeaders(rl.line)
       THEN ParseResult("ok", "",
                [method |-> method, path |-> path, headers |-> headers],
                rl.rest)
       ELSE LET h == HeaderOfLine(rl.line)
            IN IF ~h.ok
               THEN ParseResult("err", "missing header value", NoReq, rl.rest)
               ELSE ReadHeaders(rl.rest, eof, method, path,
                                MapInsert(headers, h.key, h.value))

\* parse_request on the stream s; eof says whether the stream has ended
\* after s.
ParseRequest(s, eof) ==
    LET rl == ReadLine(s, eof)
        parts == SplitWhitespace(rl.line)
    IN IF ~rl.ready THEN ParseResult("pending", "", NoReq, s)
       ELSE IF Len(parts) < 1
       THEN ParseResult("err", "missing method", NoReq, rl.rest)
       ELSE IF MethodTryFrom(parts[1]) = "unsupported"
       THEN ParseResult("err", "unsupported method", NoReq, rl.rest)
       ELSE IF Len(parts) < 2
       THEN ParseResult("err", "missing path", NoReq, rl.rest)
       ELSE ReadHeaders(rl.rest, eof, MethodTryFrom(parts[1]), parts[2],
                        EmptyMap)

----------------------------------------------------------------------------
(* The filesystem the server runs on: regular files, by absolute path (a   *)
(* sequence of names), with whether File::open succeeds and the contents.  *)
(* Directories are the proper prefixes of the files' paths.                *)

NameR == <<"r">>
NameA == <<"a", ".", "j", "s">>
NameP == <<"p">>
NameD == <<"d">>
NameB == <<"b">>
NameS == <<"s">>
DotDot == <<".", ".">>
Dot == <<".">>

Files ==
    { [path |-> <<NameR, NameA>>, readable |-> TRUE, data |-> <<"h", "i">>],
      [path |-> <<NameR, NameP>>, readable |-> FALSE, data |-> <<"x">>],
      [path |-> <<NameR, NameD, NameB>>, readable |-> TRUE, data |-> <<"b">>],
      [path |-> <<NameS>>, readable |-> TRUE, data |-> <<"k", "e", "y">>] }

FilePaths == {f.path : f \in Files}
Dirs ==
    UNION {{SubSeq(f.path, 1, n) : n \in 0..(Len(f.path) - 1)} : f \in Files}
FileAt(p) == CHOOSE f \in Files : f.path = p

\* The handler's root directory, /r (StaticFileHandler::with_root).
RootStr == <<SLASH>> \o NameR
RootPath == <<NameR>>

\* Path::join: an absolute argument replaces the base.
PathJoin(base, rel) ==
    IF rel # <<>> /\ rel[1] = SLASH THEN rel
    ELSE IF base # <<>> /\ base[Len(base)] = SLASH THEN base \o rel
    ELSE base \o <<SLASH>> \o rel

\* The operating system's resolution of the remaining segments from the
\* directory cur: "" and "." stay, ".." goes to the parent (the parent of /
\* is /), a name must exist, and only a directory can be walked through.
RECURSIVE Walk(_, _)
Walk(cur, segs) ==
    IF segs = <<>> THEN [ok |-> TRUE, path |-> cur]
    ELSE IF cur \notin Dirs THEN [ok |-> FALSE, path |-> cur]
    ELSE IF Head(segs) \in {<<>>, Dot} THEN Walk(cur, Tail(segs))
    ELSE IF Head(segs) = DotDot
    THEN Walk(IF cur = <<>> THEN cur ELSE SubSeq(cur, 1, Len(cur) - 1),
              Tail(segs))
    ELSE IF Append(cur, Head(segs)) \in Dirs \cup FilePaths
    THEN Walk(Append(cur, Head(segs)), Tail(segs))
    ELSE [ok |-> FALSE, path |-> cur]

\* The file an absolute path string names, if any.
Resolve(pathStr) == Walk(<<>>, Split(pathStr, SLASH))

\* Path::is_file
IsFile(pathStr) == Resolve(pathStr).ok /\ Resolve(pathStr).path \in FilePaths

----------------------------------------------------------------------------
(* resp.rs: Response, Status, mime_type. *)

\* include_str!("../static/404.html")
NotFoundHtml == <<"4", "0", "4">>

\* Path::extension of a path string: of its last name, the part after the
\* last "." when the name has one that is not its first character.
Extension(pathStr) ==
    LET names == SelectSeq(Split(pathStr, SLASH),
                           LAMBDA n : n # <<>> /\ n # Dot)
        name == IF names = <<>> THEN DotDot ELSE names[Len(names)]
        pieces == Split(name, ".")
    IN IF name = DotDot \/ Len(pieces) < 2 THEN <<>>
       ELSE IF Len(pieces) = 2 /\ pieces[1] = <<>> THEN <<>>
       ELSE pieces[Len(pieces)]

mime_type(pathStr) ==
    LET ext == Extension(pathStr)
    IN IF ext = <<"h", "t", "m", "l">> THEN "text/html"
       ELSE IF ext = <<"c", "s", "s">> THEN "text/css"
       ELSE IF ext = <<"j", "s">> THEN "text/javascript"
       ELSE IF ext = <<"p", "n", "g">> THEN "image/png"
       ELSE IF ext = <<"j", "p", "g">> THEN "image/jpeg"
       ELSE IF ext = <<"g", "i", "f">> THEN "image/gif"
       ELSE "application/octet-stream"

Headers(ctype, clen) ==
    [k \in {"Content-Type", "Content-Length"} |->
        IF k = "Content-Type" THEN ctype ELSE clen]

NoResp == [status |-> "none", headers |-> Headers("", 0), data |-> <<>>]

\* Response::from_html
from_html(status, data) ==
    [status |-> status, headers |-> Headers("text/html", Len(data)),
     data |-> data]

\* A from_file that takes the length of the path for that of the file.
from_fileLengthOfPath(pathStr, file) ==
    [status |-> "Ok", headers |-> Headers(mime_type(pathStr), Len(pathStr)),
     data |-> file.data]

\* Response::from_file: Content-Length from the file's metadata.
from_file(pathStr, file) ==
    [status |-> "Ok", headers |-> Headers(mime_type(pathStr), Len(file.data)),
     data |-> file.data]

\* Display for Status
StatusLine(status) == IF status = "Ok" THEN "200 OK" ELSE "404 Not Found"

\* The orders in which iter() can yield the keys of a header map: that of
\* its hash table, which depends on the random keys of the map's own hasher.
IterOrders(headers) ==
    {o \in [1..Cardinality(DOMAIN headers) -> DOMAIN headers] :
        \A i, j \in DOMAIN o : o[i] = o[j] => i = j}

\* Response::status_and_headers, as a sequence of text pieces, for a map
\* that iterates in the given order.
RECURSIVE HeaderLinesIn(_, _)
HeaderLinesIn(headers, order) ==
    IF order = <<>> THEN <<>>
    ELSE <<order[1], ": ", headers[order[1]]>>
         \o (IF Len(order) > 1 THEN <<"\r\n">> ELSE <<>>)
         \o HeaderLinesIn(headers, Tail(order))

status_and_headers(r, order) ==
    <<"HTTP/1.1 ", StatusLine(r.status), "\r\n">>
    \o HeaderLinesIn(r.headers, order) \o <<"\r\n\r\n">>

----------------------------------------------------------------------------
(* handler.rs: StaticFileHandler::handle.  The result is a response, an   *)
(* error, or a panic (strip_prefix('/').unwrap() on a path without a      *)
(* leading "/"); served is the file whose contents the response carries.  *)

HandleResult(kind, r, served) == [kind |-> kind, resp |-> r, served |-> served]
NoFile == <<<<>>>>
NotHandled == HandleResult("none", NoResp, NoFile)

\* A handle that opens the path without asking whether it is a file.
HandleWithoutIsFile(request) ==
    IF request.path = <<>> \/ request.path[1] # SLASH
    THEN HandleResult("panic", NoResp, NoFile)
    ELSE LET path == PathJoin(RootStr, Tail(request.path))
         IN IF ~IsFile(path) \/ ~FileAt(Resolve(path).path).readable
            THEN HandleResult("err", NoResp, NoFile)
            ELSE HandleResult("ok",
                     from_file(path, FileAt(Resolve(path).path)),
                     Resolve(path).path)

Handle(request) ==
    IF request.path = <<>> \/ request.path[1] # SLASH
    THEN HandleResult("panic", NoResp, NoFile)
    ELSE LET path == PathJoin(RootStr, Tail(request.path))
         IN IF ~IsFile(path)
            THEN HandleResult("ok", from_html("NotFound", NotFoundHtml), NoFile)
            ELSE IF ~FileAt(Resolve(path).path).readable
            THEN HandleResult("err", NoResp, NoFile)
            ELSE HandleResult("ok",
                     from_file(path, FileAt(Resolve(path).path)),
                     Resolve(path).path)

----------------------------------------------------------------------------
(* The clients: what they send on a connection. *)

Conns == 1..MaxConns

PathA == <<SLASH>> \o NameA                     \* a file that opens
PathP == <<SLASH>> \o NameP                     \* a file that does not open
PathM == <<SLASH, "m">>                         \* no such file
ReqLine(method, path) == method \o <<SP>> \o path \o <<SP>> \o HTTP11 \o CRLF
LineConnClose == ConnectionKey \o <<COLON, SP>> \o CloseValue \o CRLF

Msgs ==
    { ReqLine(GET, PathA) \o CRLF,
      ReqLine(GET, PathA) \o LineConnClose \o CRLF,
      ReqLine(GET, PathM) \o CRLF,
      ReqLine(GET, PathP) \o CRLF,
      ReqLine(GET, PathP) \o LineConnClose \o CRLF,
      ReqLine(GET, NameA) \o CRLF,
      ReqLine(PUT, PathA) \o CRLF,
      ReqLine(GET, PathA),
      GET \o CRLF,
      ReqLine(GET, PathA) \o NoColonLine \o CRLF,
      CRLF }

----------------------------------------------------------------------------
(* The streams parse_request is run on by itself, as in req.rs's tests: a  *)
(* request line of tokens separated by single spaces, header lines, each   *)
(* line ended by nl, and then a blank line, the end of input, or a last    *)
(* header line that the end of input cuts short of its line ending.        *)

TokenLines ==
    { <<GET, PathA, HTTP11>>, <<GET, PathA>>, <<GET>>, <<>>,
      <<PUT, PathA, HTTP11>> }

HeaderLines ==
    { HostKey \o <<COLON, SP, "x">>,
      HostKey \o <<COLON, SP, "x", COLON, "1">>,
      HostKey \o <<COLON, SP, SP, "y", SP>>,
      ConnectionKey \o <<COLON, SP>> \o CloseValue,
      NoColonLine }

HeaderSeqs == UNION {[1..n -> HeaderLines] : n \in 0..MaxHdrs}

ParseInputs ==
    [tokens : TokenLines, nl : {CRLF, <<LF>>}, hdrs : HeaderSeqs,
     term : {"blank", "eof", "cut"}]

NoInput == [tokens |-> <<>>, nl |-> CRLF, hdrs |-> <<>>, term |-> "eof"]

RECURSIVE JoinWith(_, _)
JoinWith(pieces, sep) ==
    IF pieces = <<>> THEN <<>>
    ELSE IF Len(pieces) = 1 THEN pieces[1]
    ELSE pieces[1] \o sep \o JoinWith(Tail(pieces), sep)

RECURSIVE EachEndedBy(_, _)
EachEndedBy(lines, nl) ==
    IF lines = <<>> THEN <<>>
    ELSE lines[1] \o nl \o EachEndedBy(Tail(lines), nl)

\* The bytes of an input.
Render(in) ==
    JoinWith(in.tokens, <<SP>>) \o in.nl \o EachEndedBy(in.hdrs, in.nl)
    \o (IF in.term = "blank" THEN in.nl
        ELSE IF in.term = "cut" THEN HostKey \o <<COLON, SP, "z">>
        ELSE <<>>)

----------------------------------------------------------------------------
(* The request paths StaticFileHandler::handle is run on by itself: up to  *)
(* MaxSegs segments separated by "/", with or without a leading "/".       *)

Segments == {NameA, NameP, NameD, NameB, NameS, DotDot, Dot, <<>>}

SegmentSeqs == UNION {[1..n -> Segments] : n \in 1..MaxSegs}

PathInputs ==
    {lead \o JoinWith(segs, <<SLASH>>) :
        lead \in {<<>>, <<SLASH>>}, segs \in SegmentSeqs} \ {<<>>}

----------------------------------------------------------------------------
(* The responses status_and_headers is run on by itself: two Response      *)
(* values of the same status and with equal header maps, each map with the *)
(* iteration order of its own hash table.                                  *)

ContentTypes ==
    {"text/html", "text/css", "text/javascript", "image/png", "image/jpeg",
     "image/gif", "application/octet-stream"}

SerResponses ==
    {[status |-> s, headers |-> Headers(ct, n), data |-> <<>>] :
        s \in {"Ok", "NotFound"}, ct \in ContentTypes, n \in 0..MaxBody}

SerInputs ==
    {[resp |-> r, first |-> o1, second |-> o2] :
        r \in SerResponses,
        o1 \in IterOrders(Headers("", 0)),
        o2 \in IterOrders(Headers("", 0))}

NoSerInput == [resp |-> NoResp, first |-> <<>>, second |-> <<>>]

----------------------------------------------------------------------------
(* main.rs: main, handle_client, handle_req. *)

Running == {"awaiting", "dispatching", "writeHead", "writeBody"}
Finished == {"closed", "panicked"}

InitServer ==
    /\ cancelled = FALSE
    /\ mainPc = "select"
    /\ nconn = 0
    /\ tasks = <<>>
    /\ hpc = [c \in Conns |-> "none"]
    /\ rx = [c \in Conns |-> <<>>]
    /\ rxEof = [c \in Conns |-> FALSE]
    /\ nsent = 0
    /\ req = [c \in Conns |-> NoReq]
    /\ hres = [c \in Conns |-> NotHandled]
    /\ resp = [c \in Conns |-> NoResp]
    /\ wbuf = [c \in Conns |-> <<>>]
    /\ sock = [c \in Conns |-> <<>>]
    /\ nparsed = [c \in Conns |-> 0]
    /\ logged = [c \in Conns |-> ""]

Init ==
    /\ InitServer
    /\ pin = NoInput
    /\ pres = ParseResult("none", "", NoReq, <<>>)
    /\ qpath = <<>>
    /\ qres = NotHandled
    /\ sin = NoSerInput
    /\ sout = <<>>

\* A client connects: the connection waits on the listener.
ClientConnect ==
    /\ mainPc # "done"
    /\ nconn < MaxConns
    /\ nconn' = nconn + 1
    /\ hpc' = [hpc EXCEPT ![nconn + 1] = "queued"]
    /\ UNCHANGED <<cancelled, mainPc, tasks, rx, rxEof, nsent, req, hres,
                   resp, wbuf, sock, nparsed, logged, pureVars>>

\* A client sends one message on its connection.
ClientSend(c, m) ==
    /\ hpc[c] \in Running
    /\ ~rxEof[c]
    /\ nsent < MaxSends
    /\ rx' = [rx EXCEPT ![c] = @ \o m]
    /\ nsent' = nsent + 1
    /\ UNCHANGED <<cancelled, mainPc, nconn, tasks, hpc, rxEof, req, hres,
                   resp, wbuf, sock, nparsed, logged, pureVars>>

\* A client shuts down its sending side: the server's reads reach end of
\* input after what was sent.
ClientShutdown(c) ==
    /\ hpc[c] \in Running
    /\ ~rxEof[c]
    /\ rxEof' = [rxEof EXCEPT ![c] = TRUE]
    /\ UNCHANGED <<cancelled, mainPc, nconn, tasks, hpc, rx, nsent, req, hres,
                   resp, wbuf, sock, nparsed, logged, pureVars>>

\* The task spawned at main.rs:44: Ctrl-C cancels the token.
CtrlC ==
    /\ ~cancelled
    /\ mainPc # "done"
    /\ cancelled' = TRUE
    /\ UNCHANGED <<mainPc, nconn, tasks, hpc, rx, rxEof, nsent, req, hres,
                   resp, wbuf, sock, nparsed, logged, pureVars>>

\* The connection listener.accept() returns next: the oldest one waiting.
NextQueued == CHOOSE c \in Conns : hpc[c] = "queued" /\
                  \A d \in Conns : hpc[d] = "queued" => c <= d

\* main.rs:60-68: the accept branch of main's select!, which spawns the
\* handler task and pushes its handle.  select! polls its branches in random
\* order, so the branch can be taken whether or not the token is cancelled.
Accept ==
    /\ mainPc = "select"
    /\ \E c \in Conns : hpc[c] = "queued"
    /\ hpc' = [hpc EXCEPT ![NextQueued] = "awaiting"]
    /\ logged' = [logged EXCEPT ![NextQueued] = "new connection"]
    /\ tasks' = Append(tasks, NextQueued)
    /\ UNCHANGED <<cancelled, mainPc, nconn, rx, rxEof, nsent, req, hres,
                   resp, wbuf, sock, nparsed, pureVars>>

\* main.rs:60: accept() returns Err: the pattern Ok((stream, addr)) does not
\* match, which disables the branch for this select!; main then waits for the
\* remaining branch alone.
AcceptErr ==
    /\ mainPc = "select"
    /\ mainPc' = "selectNoAccept"
    /\ UNCHANGED <<cancelled, nconn, tasks, hpc, rx, rxEof, nsent, req, hres,
                   resp, wbuf, sock, nparsed, logged, pureVars>>

\* main.rs:69-72: the cancelled branch of main's select!.
MainCancelled ==
    /\ mainPc \in {"select", "selectNoAccept"}
    /\ cancelled
    /\ mainPc' = "join"
    /\ UNCHANGED <<cancelled, nconn, tasks, hpc, rx, rxEof, nsent, req, hres,
                   resp, wbuf, sock, nparsed, logged, pureVars>>

\* A main that returns without awaiting join_all.
JoinNone ==
    /\ mainPc = "join"
    /\ mainPc' = "done"
    /\ UNCHANGED <<cancelled, nconn, tasks, hpc, rx, rxEof, nsent, req, hres,
                   resp, wbuf, sock, nparsed, logged, pureVars>>

\* main.rs:76-78: join_all(tasks) completes when every task has finished (a
\* panicked task's JoinHandle completes with an error); main then returns.
JoinAll ==
    /\ mainPc = "join"
    /\ \A i \in 1..Len(tasks) : hpc[tasks[i]] \in Finished
    /\ mainPc' = "done"
    /\ UNCHANGED <<cancelled, nconn, tasks, hpc, rx, rxEof, nsent, req, hres,
                   resp, wbuf, sock, nparsed, logged, pureVars>>

\* main.rs:87,115: the task ends and with it the BufStream it owns: the
\* connection is closed and what it had received is gone.
DropStream(c) ==
    /\ rx' = [rx EXCEPT ![c] = <<>>]
    /\ rxEof' = [rxEof EXCEPT ![c] = FALSE]

\* main.rs:93-97,125: parse_request returns a Request, on which handle_req
\* calls handler.handle; what that call returns in the end is a function of
\* the request and of the filesystem.
ParseOk(c) ==
    /\ hpc[c] = "awaiting"
    /\ ParseRequest(rx[c], rxEof[c]).status = "ok"
    /\ req' = [req EXCEPT ![c] = ParseRequest(rx[c], rxEof[c]).req]
    /\ hres' = [hres EXCEPT ![c] = Handle(ParseRequest(rx[c], rxEof[c]).req)]
    /\ rx' = [rx EXCEPT ![c] = ParseRequest(rx[c], rxEof[c]).rest]
    /\ nparsed' = [nparsed EXCEPT ![c] = @ + 1]
    /\ hpc' = [hpc EXCEPT ![c] = "dispatching"]
    /\ logged' = [logged EXCEPT ![c] = "incoming request"]
    /\ UNCHANGED <<cancelled, mainPc, nconn, tasks, rxEof, nsent, resp, wbuf,
                   sock, pureVars>>

\* A handler that answers a request it could not parse before it closes.
ParseFailResponds(c) ==
    /\ hpc[c] = "awaiting"
    /\ ParseRequest(rx[c], rxEof[c]).status = "err"
    /\ hpc' = [hpc EXCEPT ![c] = "closed"]
    /\ logged' = [logged EXCEPT ![c] = "failed to parse request"]
    /\ sock' = [sock EXCEPT ![c] =
                   @ \o <<[n |-> nparsed[c] + 1, part |-> "head",
                           resp |-> from_html("NotFound", NotFoundHtml)]>>]
    /\ DropStream(c)
    /\ UNCHANGED <<cancelled, mainPc, nconn, tasks, nsent, req, hres, resp,
                   wbuf, nparsed, pureVars>>

\* main.rs:102-105: parse_request returns an error; the loop breaks.
ParseFail(c) ==
    /\ hpc[c] = "awaiting"
    /\ ParseRequest(rx[c], rxEof[c]).status = "err"
    /\ hpc' = [hpc EXCEPT ![c] = "closed"]
    /\ logged' = [logged EXCEPT ![c] = "failed to parse request"]
    /\ DropStream(c)
    /\ UNCHANGED <<cancelled, mainPc, nconn, tasks, nsent, req, hres, resp,
                   wbuf, sock, nparsed, pureVars>>

\* req.rs:30,48 with main.rs:102-105: read_line fails (the connection is
\* reset), which parse_request returns as its error.
ReadError(c) ==
    /\ hpc[c] = "awaiting"
    /\ hpc' = [hpc EXCEPT ![c] = "closed"]
    /\ logged' = [logged EXCEPT ![c] = "failed to parse request"]
    /\ DropStream(c)
    /\ UNCHANGED <<cancelled, mainPc, nconn, tasks, nsent, req, hres, resp,
                   wbuf, sock, nparsed, pureVars>>

\* A handler whose select! has no cancelled branch.
HandlerNeverCancelled(c) ==
    /\ hpc[c] = "awaiting"
    /\ cancelled
    /\ FALSE
    /\ UNCHANGED vars

\* main.rs:108-111: the cancelled branch of handle_client's select!.
HandlerCancelled(c) ==
    /\ hpc[c] = "awaiting"
    /\ cancelled
    /\ hpc' = [hpc EXCEPT ![c] = "closed"]
    /\ logged' = [logged EXCEPT ![c] = "closing connection"]
    /\ DropStream(c)
    /\ UNCHANGED <<cancelled, mainPc, nconn, tasks, nsent, req, hres, resp,
                   wbuf, sock, nparsed, pureVars>>

\* The other policy: close unless the client asks for keep-alive.
KeepAliveValue == <<"k", "e", "e", "p", "-", "a", "l", "i", "v", "e">>
CloseUnlessKeepAlive(request) ==
    ~MapGetIs(request.headers, ConnectionKey, KeepAliveValue)

\* main.rs:123
CloseConnection(request) ==
    MapGetIs(request.headers, ConnectionKey, CloseValue)

\* A panic that takes the whole process down instead of the one task.
DispatchPanicAborts(c) ==
    /\ hpc[c] = "dispatching"
    /\ hres[c].kind = "panic"
    /\ hpc' = [d \in Conns |->
                  IF hpc[d] \in Running THEN "panicked" ELSE hpc[d]]
    /\ mainPc' = "done"
    /\ req' = [req EXCEPT ![c] = NoReq]
    /\ hres' = [hres EXCEPT ![c] = NotHandled]
    /\ DropStream(c)
    /\ UNCHANGED <<cancelled, nconn, tasks, nsent, resp, wbuf, sock,
                   nparsed, logged, pureVars>>

\* main.rs:125 with handler.rs:21: the call panics, which ends the task.
DispatchPanic(c) ==
    /\ hpc[c] = "dispatching"
    /\ hres[c].kind = "panic"
    /\ hpc' = [hpc EXCEPT ![c] = "panicked"]
    /\ req' = [req EXCEPT ![c] = NoReq]
    /\ hres' = [hres EXCEPT ![c] = NotHandled]
    /\ DropStream(c)
    /\ UNCHANGED <<cancelled, mainPc, nconn, tasks, nsent, resp, wbuf, sock,
                   nparsed, logged, pureVars>>

\* main.rs:129-132 with main.rs:97-100: handle returns an error; handle_req
\* returns Ok(false) and handle_client's loop goes on.
DispatchErr(c) ==
    /\ hpc[c] = "dispatching"
    /\ hres[c].kind = "err"
    /\ hpc' = [hpc EXCEPT ![c] = "awaiting"]
    /\ req' = [req EXCEPT ![c] = NoReq]
    /\ hres' = [hres EXCEPT ![c] = NotHandled]
    /\ logged' = [logged EXCEPT ![c] = "failed to handle request"]
    /\ UNCHANGED <<cancelled, mainPc, nconn, tasks, rx, rxEof, nsent, resp,
                   wbuf, sock, nparsed, pureVars>>

\* main.rs:125-127: handle returns a response, which is then written.
DispatchOk(c) ==
    /\ hpc[c] = "dispatching"
    /\ hres[c].kind = "ok"
    /\ resp' = [resp EXCEPT ![c] = hres[c].resp]
    /\ hres' = [hres EXCEPT ![c] = NotHandled]
    /\ hpc' = [hpc EXCEPT ![c] = "writeHead"]
    /\ UNCHANGED <<cancelled, mainPc, nconn, tasks, rx, rxEof, nsent, req,
                   wbuf, sock, nparsed, logged, pureVars>>

\* A part of response number n as it travels to the client.
Part(n, part, r) == [n |-> n, part |-> part, resp |-> r]

\* A handler that does not wait for the write it has started.
WriteHeadAndGoOn(c) ==
    /\ hpc[c] = "writeHead"
    /\ wbuf' = [wbuf EXCEPT ![c] = @ \o <<Part(nparsed[c], "head", resp[c])>>]
    /\ hpc' = [hpc EXCEPT ![c] = "awaiting"]
    /\ UNCHANGED <<cancelled, mainPc, nconn, tasks, rx, rxEof, nsent, req,
                   hres, resp, sock, nparsed, logged, pureVars>>

\* resp.rs:33-35: write_all of the status line and headers, which BufStream
\* keeps in its write buffer.
WriteHead(c) ==
    /\ hpc[c] = "writeHead"
    /\ wbuf' = [wbuf EXCEPT ![c] = @ \o <<Part(nparsed[c], "head", resp[c])>>]
    /\ hpc' = [hpc EXCEPT ![c] = "writeBody"]
    /\ UNCHANGED <<cancelled, mainPc, nconn, tasks, rx, rxEof, nsent, req,
                   hres, resp, sock, nparsed, logged, pureVars>>

\* A copy that leaves the flush to its caller.
CopyBodyNoFlush(c) ==
    /\ hpc[c] = "writeBody"
    /\ wbuf' = [wbuf EXCEPT ![c] = @ \o <<Part(nparsed[c], "body", resp[c])>>]
    /\ hpc' = [hpc EXCEPT ![c] =
                  IF CloseConnection(req[c]) THEN "closed" ELSE "awaiting"]
    /\ req' = [req EXCEPT ![c] = NoReq]
    /\ resp' = [resp EXCEPT ![c] = NoResp]
    /\ IF CloseConnection(req[c]) THEN DropStream(c)
       ELSE UNCHANGED <<rx, rxEof>>
    /\ UNCHANGED <<hres, cancelled, mainPc, nconn, tasks, nsent, nparsed,
                   sock, logged, pureVars>>

\* A write that gives up when the token is cancelled.
CopyBodyUnlessCancelled(c) ==
    /\ hpc[c] = "writeBody"
    /\ IF cancelled
       THEN /\ hpc' = [hpc EXCEPT ![c] = "closed"]
            /\ logged' = [logged EXCEPT ![c] = "closing connection"]
            /\ wbuf' = [wbuf EXCEPT ![c] = <<>>]
            /\ DropStream(c)
            /\ UNCHANGED sock
       ELSE /\ sock' = [sock EXCEPT ![c] =
                   @ \o wbuf[c] \o <<Part(nparsed[c], "body", resp[c])>>]
            /\ wbuf' = [wbuf EXCEPT ![c] = <<>>]
            /\ hpc' = [hpc EXCEPT ![c] =
                  IF CloseConnection(req[c]) THEN "closed" ELSE "awaiting"]
            /\ IF CloseConnection(req[c]) THEN DropStream(c)
               ELSE UNCHANGED <<rx, rxEof>>
            /\ UNCHANGED logged
    /\ req' = [req EXCEPT ![c] = NoReq]
    /\ resp' = [resp EXCEPT ![c] = NoResp]
    /\ UNCHANGED <<hres, cancelled, mainPc, nconn, tasks, nsent, nparsed,
                   pureVars>>

\* resp.rs:37 with main.rs:98-100,135: tokio::io::copy writes the body and
\* flushes the stream when the body is exhausted; handle_req returns
\* close_connection, on which handle_client's loop breaks or goes on.
CopyBody(c) ==
    /\ hpc[c] = "writeBody"
    /\ sock' = [sock EXCEPT ![c] =
                   @ \o wbuf[c] \o <<Part(nparsed[c], "body", resp[c])>>]
    /\ wbuf' = [wbuf EXCEPT ![c] = <<>>]
    /\ hpc' = [hpc EXCEPT ![c] =
                  IF CloseConnection(req[c]) THEN "closed" ELSE "awaiting"]
    /\ req' = [req EXCEPT ![c] = NoReq]
    /\ resp' = [resp EXCEPT ![c] = NoResp]
    /\ IF CloseConnection(req[c]) THEN DropStream(c)
       ELSE UNCHANGED <<rx, rxEof>>
    /\ UNCHANGED <<hres, cancelled, mainPc, nconn, tasks, nsent, nparsed,
                   logged, pureVars>>

\* A handle_req that swallows the write error: the loop goes on.
WriteFailGoesOn(c) ==
    /\ hpc[c] \in {"writeHead", "writeBody"}
    /\ hpc' = [hpc EXCEPT ![c] = "awaiting"]
    /\ \E flushed \in BOOLEAN :
          sock' = [sock EXCEPT ![c] = IF flushed THEN @ \o wbuf[c] ELSE @]
    /\ wbuf' = [wbuf EXCEPT ![c] = <<>>]
    /\ req' = [req EXCEPT ![c] = NoReq]
    /\ resp' = [resp EXCEPT ![c] = NoResp]
    /\ UNCHANGED <<hres, cancelled, mainPc, nconn, tasks, rx, rxEof, nsent,
                   nparsed, logged, pureVars>>

\* main.rs:127: a write fails and unwrap() panics, which ends the task; what
\* the write buffer holds is dropped with the stream, unless the copy had
\* already pushed it to the socket.
WriteFail(c) ==
    /\ hpc[c] \in {"writeHead", "writeBody"}
    /\ hpc' = [hpc EXCEPT ![c] = "panicked"]
    /\ \E flushed \in BOOLEAN :
          sock' = [sock EXCEPT ![c] = IF flushed THEN @ \o wbuf[c] ELSE @]
    /\ wbuf' = [wbuf EXCEPT ![c] = <<>>]
    /\ req' = [req EXCEPT ![c] = NoReq]
    /\ resp' = [resp EXCEPT ![c] = NoResp]
    /\ DropStream(c)
    /\ UNCHANGED <<hres, cancelled, mainPc, nconn, tasks, nsent, nparsed,
                   logged, pureVars>>

Client == \/ ClientConnect
          \/ \E c \in Conns, m \in Msgs : ClientSend(c, m)
          \/ \E c \in Conns : ClientShutdown(c)

Main == Accept \/ AcceptErr \/ MainCancelled \/ JoinAll

Handler(c) == \/ ParseOk(c) \/ ParseFail(c) \/ ReadError(c)
              \/ HandlerCancelled(c)
              \/ DispatchPanic(c) \/ DispatchErr(c) \/ DispatchOk(c)
              \/ WriteHead(c) \/ CopyBody(c) \/ WriteFail(c)

Next == Client \/ CtrlC \/ Main \/ \E c \in Conns : Handler(c)

Spec == Init /\ [][Next]_vars

\* What the runtime guarantees of the tasks.  A ready task is polled, so a
\* dispatch or a write that can proceed does, and main's select! and
\* join_all complete once they can.  A handler's select! picks among its
\* ready branches at random, so the cancelled branch, ready every time the
\* handler awaits a request after the token is cancelled, is taken in the end.
Fairness ==
    /\ WF_vars(MainCancelled)
    /\ WF_vars(JoinAll)
    /\ \A c \in Conns :
          /\ SF_vars(HandlerCancelled(c))
          /\ WF_vars(DispatchPanic(c) \/ DispatchErr(c) \/ DispatchOk(c))
          /\ WF_vars(WriteHead(c))
          /\ WF_vars(CopyBody(c))

FairSpec == Spec /\ Fairness

----------------------------------------------------------------------------
(* parse_request run by itself on one input, which ends where the input    *)
(* does (req.rs:79-103).                                                   *)

ParseInit ==
    /\ InitServer
    /\ pin \in ParseInputs
    /\ pres = ParseResult("none", "", NoReq, <<>>)
    /\ qpath = <<>>
    /\ qres = NotHandled
    /\ sin = NoSerInput
    /\ sout = <<>>

ParseStep ==
    /\ pres.status = "none"
    /\ pres' = ParseRequest(Render(pin), TRUE)
    /\ UNCHANGED <<serverVars, pin, qpath, qres, sin, sout>>

ParseSpec == ParseInit /\ [][ParseStep]_vars

----------------------------------------------------------------------------
(* StaticFileHandler::handle run by itself on one request path.            *)

HandleInit ==
    /\ InitServer
    /\ pin = NoInput
    /\ pres = ParseResult("none", "", NoReq, <<>>)
    /\ qpath \in PathInputs
    /\ qres = NotHandled
    /\ sin = NoSerInput
    /\ sout = <<>>

HandleStep ==
    /\ qres.kind = "none"
    /\ qres' = Handle([method |-> "Get", path |-> qpath, headers |-> EmptyMap])
    /\ UNCHANGED <<serverVars, pin, pres, qpath, sin, sout>>

HandleSpec == HandleInit /\ [][HandleStep]_vars

----------------------------------------------------------------------------
(* Response::status_and_headers run by itself on two equal responses.      *)

SerializeInit ==
    /\ InitServer
    /\ pin = NoInput
    /\ pres = ParseResult("none", "", NoReq, <<>>)
    /\ qpath = <<>>
    /\ qres = NotHandled
    /\ sin \in SerInputs
    /\ sout = <<>>

SerializeStep ==
    /\ Len(sout) < 2
    /\ sout' = Append(sout,
                   status_and_headers(sin.resp,
                       IF sout = <<>> THEN sin.first ELSE sin.second))
    /\ UNCHANGED <<serverVars, pin, pres, qpath, qres, sin>>

SerializeSpec == SerializeInit /\ [][SerializeStep]_vars

----------------------------------------------------------------------------
(* The properties checked. *)

\* What has been written on connection c, flushed or not.
Wire(c) == sock[c] \o wbuf[c]

PartsOf(w, n, part) == {i \in 1..Len(w) : w[i].n = n /\ w[i].part = part}

\* Every response on the wire w is there whole.
AllWhole(w) ==
    \A i \in 1..Len(w) :
        IF w[i].part = "head"
        THEN i < Len(w) /\ w[i + 1].part = "body" /\ w[i + 1].n = w[i].n
        ELSE i > 1 /\ w[i - 1].part = "head" /\ w[i - 1].n = w[i].n

\* C1: on a connection, every response written belongs to a request that
\* was parsed, no request gets more than one response, and whenever the
\* handler is about to parse a request, or has parsed one and not yet
\* answered it, every response written so far is complete and has left the
\* write buffer for the socket.
C1_OneResponseThenNextRequest ==
    \A c \in Conns :
        /\ \A i \in 1..Len(Wire(c)) : Wire(c)[i].n \in 1..nparsed[c]
        /\ \A n \in 1..nparsed[c] :
              /\ Cardinality(PartsOf(Wire(c), n, "head")) <= 1
              /\ Cardinality(PartsOf(Wire(c), n, "body")) <= 1
        /\ hpc[c] \in {"awaiting", "dispatching"} =>
              /\ wbuf[c] = <<>>
              /\ AllWhole(sock[c])
              /\ hpc[c] = "dispatching" =>
                    \A i \in 1..Len(sock[c]) : sock[c][i].n < nparsed[c]

\* Two requests have been answered on a connection, whose handler awaits
\* a third.
C1_Witness ==
    \E c \in Conns :
        /\ hpc[c] = "awaiting"
        /\ nparsed[c] = 2
        /\ Len(sock[c]) = 4

\* C2: once the token is cancelled, main accepts no connection and spawns
\* no handler task, whatever waits on the listener.
C2_NoAcceptAfterCancel ==
    [][cancelled =>
          /\ tasks' = tasks
          /\ \A c \in Conns : hpc[c] = "queued" => hpc'[c] = "queued"]_vars

C4_ExitAfterAllHandlers ==
    /\ \A c \in Conns :
          hpc[c] \in Running \cup Finished =>
              \E i \in 1..Len(tasks) : tasks[i] = c
    /\ mainPc = "done" => \A c \in Conns : hpc[c] \notin Running

\* main has returned after two connections were accepted.
C4_Witness == mainPc = "done" /\ Len(tasks) = 2

\* The request carries a Connection header whose value is exactly "close".
SaysClose(request) ==
    \E k \in DOMAIN request.headers :
        k = ConnectionKey /\ request.headers[k] = CloseValue

\* C5: the step that completes the write of a response closes the
\* connection if the request said close and otherwise returns the handler to
\* awaiting a request; the response is then whole on the socket, after the
\* responses to the earlier requests; and a closed handler stays closed and
\* parses nothing more.
C5_CloseOrAwaitAfterWrite ==
    [][\A c \in Conns :
          /\ (/\ hpc[c] = "writeBody"
              /\ hpc'[c] \notin {"writeBody", "panicked"}) =>
                /\ hpc'[c] = IF SaysClose(req[c]) THEN "closed" ELSE "awaiting"
                /\ wbuf'[c] = <<>>
                /\ AllWhole(sock'[c])
                /\ sock'[c][Len(sock'[c])].n = nparsed[c]
                /\ \A i \in 1..Len(sock[c]) : sock'[c][i].n < nparsed[c]
          /\ hpc[c] = "closed" =>
                hpc'[c] = "closed" /\ nparsed'[c] = nparsed[c]]_vars

\* A connection is closed right after the response to its second request,
\* the first having been answered without closing.
C5_Witness ==
    \E c \in Conns :
        /\ hpc[c] = "closed"
        /\ logged[c] = "incoming request"
        /\ nparsed[c] = 2
        /\ Len(sock[c]) = 4
        /\ sock[c][4].part = "body"

\* C6: when handle fails for a request, the handler closes the connection
\* and writes nothing.
C6_ResolverFailureCloses ==
    [][\A c \in Conns :
          (/\ hpc[c] = "dispatching"
           /\ Handle(req[c]).kind = "err"
           /\ hpc'[c] # "dispatching") =>
              /\ hpc'[c] = "closed"
              /\ sock'[c] = sock[c]
              /\ wbuf'[c] = wbuf[c]]_vars

\* C7: when parse_request fails, the handler's next step closes the
\* connection and writes nothing, and nothing is written on a closed
\* connection.
C7_ParseFailureCloses ==
    [][\A c \in Conns :
          /\ (/\ hpc[c] = "awaiting"
              /\ \/ ParseRequest(rx[c], rxEof[c]).status = "err"
                 \/ logged'[c] = "failed to parse request"
              /\ hpc'[c] # "awaiting") =>
                /\ hpc'[c] = "closed"
                /\ sock'[c] = sock[c]
                /\ wbuf'[c] = wbuf[c]
          /\ hpc[c] = "closed" =>
                /\ hpc'[c] = "closed"
                /\ sock'[c] = sock[c]
                /\ wbuf'[c] = wbuf[c]]_vars

\* A connection closed on a request that could not be parsed, after one
\* that was answered.
C7_Witness ==
    \E c \in Conns :
        /\ hpc[c] = "closed"
        /\ logged[c] = "failed to parse request"
        /\ nparsed[c] = 1
        /\ Len(sock[c]) = 2

\* What the text of a header line says: the name before its first colon,
\* and as value all that follows that colon, trimmed.
HasColon(line) == IndexOf(line, COLON) > 0
NameOf(line) == SubSeq(line, 1, IndexOf(line, COLON) - 1)
ValueOf(line) == Trim(SubSeq(line, IndexOf(line, COLON) + 1, Len(line)))

\* The header map of the lines: the last line of a name gives its value.
HeadersOf(lines) ==
    [k \in {NameOf(lines[i]) : i \in 1..Len(lines)} |->
        LET last == CHOOSE i \in 1..Len(lines) :
                        /\ NameOf(lines[i]) = k
                        /\ \A j \in (i + 1)..Len(lines) : NameOf(lines[j]) # k
        IN ValueOf(lines[last])]

GoodRequestLine(in) == Len(in.tokens) >= 2 /\ in.tokens[1] = GET
GoodHeaders(in) == \A i \in 1..Len(in.hdrs) : HasColon(in.hdrs[i])
Parsed == pres.status # "none"

\* C8 as stated: when the input ends after the request line or after some
\* header lines, with no blank line, parse_request fails.
C8_EndOfInputFails ==
    (Parsed /\ pin.term = "eof") => pres.status = "err"

\* C8 as the code has it: the end of input ends the headers as a blank line
\* does.  parse_request then returns a Request exactly when the request line
\* and the header lines read are well-formed, with the method and path of
\* the request line and the names of those header lines.
C8_EndOfInputEndsHeaders ==
    (Parsed /\ pin.term = "eof") =>
        /\ pres.status \in {"ok", "err"}
        /\ pres.status = "ok" <=> (GoodRequestLine(pin) /\ GoodHeaders(pin))
        /\ pres.status = "ok" =>
              /\ pres.req.method = "Get"
              /\ pres.req.path = pin.tokens[2]
              /\ DOMAIN pres.req.headers =
                    {NameOf(pin.hdrs[i]) : i \in 1..Len(pin.hdrs)}

\* A Request returned for an input that ends after its first header line.
C8_Witness ==
    /\ pres.status = "ok"
    /\ pin.term = "eof"
    /\ Len(pin.hdrs) = 1

\* C9: for a well-formed request, parse_request returns the method, the
\* path and the header map the lines say.
C9_HeadersAsReceived ==
    (/\ Parsed
     /\ GoodRequestLine(pin)
     /\ GoodHeaders(pin)
     /\ pin.term = "blank") =>
        /\ pres.status = "ok"
        /\ pres.req.method = "Get"
        /\ pres.req.path = pin.tokens[2]
        /\ pres.req.headers = HeadersOf(pin.hdrs)

\* C10: handle serves no file from outside the root.
C10_NothingServedOutsideRoot ==
    (qres.kind = "ok" /\ qres.resp.status = "Ok") =>
        /\ Len(qres.served) > Len(RootPath)
        /\ SubSeq(qres.served, 1, Len(RootPath)) = RootPath

\* The handler of c is writing a response.
Writing(c) == hpc[c] \in {"writeHead", "writeBody"}

\* C11: a step that takes a handler out of the write of a response without
\* that response whole on the socket ends the handler, and leaves main and
\* the other handlers where they were; a handler that has ended stays so,
\* parses no request and writes no byte.
C11_WriteFailureCloses ==
    [][\A c \in Conns :
          /\ (/\ Writing(c)
              /\ hpc'[c] \notin {"writeHead", "writeBody"}
              /\ ~(/\ sock'[c] # <<>>
                    /\ sock'[c][Len(sock'[c])].part = "body"
                    /\ sock'[c][Len(sock'[c])].n = nparsed[c])) =>
                /\ hpc'[c] \in Finished
                /\ mainPc' = mainPc
                /\ tasks' = tasks
                /\ \A d \in Conns \ {c} : hpc'[d] = hpc[d]
          /\ hpc[c] \in Finished =>
                /\ hpc'[c] = hpc[c]
                /\ nparsed'[c] = nparsed[c]
                /\ sock'[c] = sock[c]
                /\ wbuf'[c] = wbuf[c]]_vars

\* The write of the second response on a connection has failed after its
\* head reached the socket, while main still runs its loop.
C11_Witness ==
    \E c \in Conns :
        /\ hpc[c] = "panicked"
        /\ nparsed[c] = 2
        /\ Len(sock[c]) = 3
        /\ sock[c][3].part = "head"
        /\ mainPc = "select"

\* C12: as long as the token is not cancelled, main in its loop can accept
\* a connection that waits on the listener, whatever earlier accepts
\* returned.
C12_AcceptLoopSurvivesError ==
    (/\ mainPc \in {"select", "selectNoAccept"}
     /\ ~cancelled
     /\ \E c \in Conns : hpc[c] = "queued") => ENABLED Accept

\* The step is a failure inside the handler of c: its task is aborted by a
\* panic (of the resolver or of a write), the resolver returns an error, or
\* parse_request does.
FailsAt(c) ==
    \/ hpc[c] \in Running /\ hpc'[c] = "panicked"
    \/ hpc[c] = "dispatching" /\ hpc'[c] = "awaiting"
    \/ /\ hpc[c] = "awaiting"
       /\ hpc'[c] = "closed"
       /\ logged'[c] = "failed to parse request"

\* C13: a failure inside the handler of one connection changes nothing of
\* the other connections, of their handlers or of main's accept loop.
C13_FailureStaysInItsHandler ==
    [][\A c \in Conns :
          FailsAt(c) =>
              /\ mainPc' = mainPc
              /\ tasks' = tasks
              /\ cancelled' = cancelled
              /\ nconn' = nconn
              /\ \A d \in Conns \ {c} :
                    /\ hpc'[d] = hpc[d]
                    /\ rx'[d] = rx[d]
                    /\ rxEof'[d] = rxEof[d]
                    /\ req'[d] = req[d]
                    /\ hres'[d] = hres[d]
                    /\ resp'[d] = resp[d]
                    /\ wbuf'[d] = wbuf[d]
                    /\ sock'[d] = sock[d]
                    /\ nparsed'[d] = nparsed[d]]_vars

\* One handler was aborted by a panic of the resolver while main runs its
\* loop and the handler of another connection writes a response.
C13_Witness ==
    \E c, d \in Conns :
        /\ hpc[c] = "panicked"
        /\ sock[c] = <<>>
        /\ nparsed[c] = 1
        /\ hpc[d] = "writeBody"
        /\ mainPc = "select"

\* The path handle looks up for qpath: root joined with qpath less its first
\* character.
Joined == PathJoin(RootStr, Tail(qpath))
Handled == qres.kind # "none"

\* The fixed NotFound response.
IsNotFound(r) ==
    /\ r.status = "NotFound"
    /\ r.headers["Content-Type"] = "text/html"
    /\ r.data = NotFoundHtml

\* The 200 response of the file f looked up as pathStr.
IsFileResponse(r, pathStr, f) ==
    /\ r.status = "Ok"
    /\ r.headers["Content-Type"] = mime_type(pathStr)
    /\ r.headers["Content-Length"] = Len(f.data)
    /\ r.data = f.data

\* C14 as stated, for a path that begins with "/": handle returns the
\* NotFound response exactly when the joined path is not a regular file,
\* and otherwise the 200 response of that file.
C14_NotFoundOrFile ==
    (Handled /\ qpath[1] = SLASH) =>
        /\ qres.kind = "ok"
        /\ IsNotFound(qres.resp) <=> ~IsFile(Joined)
        /\ IsFile(Joined) =>
              IsFileResponse(qres.resp, Joined, FileAt(Resolve(Joined).path))

\* C14 as the code has it, for a path that begins with "/": NotFound
\* exactly when the joined path is not a regular file; an error when it is
\* one that cannot be opened; otherwise the 200 response of that file.
C14_NotFoundOrFileOrError ==
    (Handled /\ qpath[1] = SLASH) =>
        /\ qres.kind \in {"ok", "err"}
        /\ (qres.kind = "ok" /\ IsNotFound(qres.resp)) <=> ~IsFile(Joined)
        /\ IsFile(Joined) =>
              LET f == FileAt(Resolve(Joined).path)
              IN IF f.readable
                 THEN qres.kind = "ok" /\ IsFileResponse(qres.resp, Joined, f)
                 ELSE qres.kind = "err"

\* handle has returned an error for a file that cannot be opened, named by
\* a path of several segments.
C14_Witness ==
    /\ qres.kind = "err"
    /\ qpath[1] = SLASH
    /\ IsFile(Joined)
    /\ Len(qpath) > Len(PathP)

\* C15: every response that has reached the socket with its body was sent
\* with a Content-Type header and with a Content-Length header that is the
\* number of bytes of that body.
C15_ContentLengthIsBodyLength ==
    \A c \in Conns :
        \A i \in 1..Len(sock[c]) :
            sock[c][i].part = "body" =>
                /\ i > 1
                /\ sock[c][i - 1].part = "head"
                /\ sock[c][i - 1].n = sock[c][i].n
                /\ {"Content-Type", "Content-Length"} \subseteq
                       DOMAIN sock[c][i - 1].resp.headers
                /\ sock[c][i - 1].resp.headers["Content-Length"] =
                       Len(sock[c][i].resp.data)

\* A connection on which a file and the NotFound page have both been sent.
C15_Witness ==
    \E c \in Conns :
        /\ Len(sock[c]) = 4
        /\ sock[c][2].part = "body"
        /\ sock[c][4].part = "body"
        /\ sock[c][2].resp.status # sock[c][4].resp.status

\* The handler of c has parsed a request that it has not finished with.
Busy(c) == hpc[c] \in {"dispatching", "writeHead", "writeBody"}

\* The response to the last request parsed on c is whole on the socket.
LastAnswered(w, n) ==
    /\ Len(w) >= 2
    /\ w[Len(w)].part = "body" /\ w[Len(w)].n = n
    /\ w[Len(w) - 1].part = "head" /\ w[Len(w) - 1].n = n

\* C16: with the token cancelled, a handler that has parsed a request goes
\* on with it: it leaves the request only with its response whole on the
\* socket, or because the resolver or the write failed, never by taking the
\* cancelled branch; and when a handler does take that branch, every
\* response it began is whole on the socket.
C16_NoAbortOfRequestInFlight ==
    [][\A c \in Conns :
          /\ (cancelled /\ Busy(c) /\ hpc'[c] # hpc[c]) =>
                /\ logged'[c] # "closing connection"
                /\ \/ hpc'[c] \in {"writeHead", "writeBody"}
                   \/ hpc[c] = "writeBody" /\ LastAnswered(sock'[c], nparsed[c])
                   \/ hpc'[c] = "panicked"
                   \/ /\ hpc[c] = "dispatching"
                      /\ hres[c].kind = "err"
                      /\ hpc'[c] = "awaiting"
          /\ (logged'[c] = "closing connection" /\ hpc[c] \in Running) =>
                /\ hpc[c] = "awaiting"
                /\ wbuf[c] = <<>>
                /\ AllWhole(sock[c])
                /\ sock'[c] = sock[c]]_vars

\* A handler has taken the cancelled branch with a response whole on the
\* socket for the one request it parsed.
C16_Witness ==
    \E c \in Conns :
        /\ cancelled
        /\ hpc[c] = "closed"
        /\ logged[c] = "closing connection"
        /\ nparsed[c] = 1
        /\ LastAnswered(sock[c], 1)

\* C17: once the token is cancelled, a handler that awaits a request parses
\* none: its next step closes the connection, whatever bytes wait to be
\* read.
C17_NoParseAfterCancel ==
    [][\A c \in Conns :
          (cancelled /\ hpc[c] = "awaiting" /\ hpc'[c] # "awaiting") =>
              /\ hpc'[c] = "closed"
              /\ nparsed'[c] = nparsed[c]]_vars

\* C18: the step that ends a successful write leaves the write buffer empty
\* and has put on the socket all that the buffer held and the body after it;
\* a handler that awaits a request or has closed has nothing in its write
\* buffer.
C18_FlushedBeforeReadOrClose ==
    [][\A c \in Conns :
          /\ (hpc[c] = "writeBody" /\ hpc'[c] \in {"awaiting", "closed"}) =>
                /\ wbuf'[c] = <<>>
                /\ Len(sock'[c]) = Len(sock[c]) + Len(wbuf[c]) + 1
                /\ SubSeq(sock'[c], Len(sock[c]) + 1, Len(sock'[c]) - 1)
                       = wbuf[c]
                /\ LastAnswered(sock'[c], nparsed[c])
          /\ hpc[c] \in {"awaiting", "closed"} => wbuf[c] = <<>>]_vars

\* A connection closed after the one response asked for with
\* Connection: close, which is whole on the socket.
C18_Witness ==
    \E c \in Conns :
        /\ hpc[c] = "closed"
        /\ logged[c] = "incoming request"
        /\ nparsed[c] = 1
        /\ wbuf[c] = <<>>
        /\ LastAnswered(sock[c], 1)

\* C19: for no request that parse_request returns does the call of handle
\* panic.
C19_HandleNeverPanics ==
    \A c \in Conns : hres[c].kind # "panic"

\* C20: status_and_headers returns the same text for two responses of
\* equal status and equal header maps.
C20_SerializationDeterministic ==
    Len(sout) = 2 => sout[1] = sout[2]

====
